---- MODULE Spec2Model ----
(***************************************************************************)
(* Model of src/preprocessing.py: the per-source text normalisation and    *)
(* common-word pruning pipeline and its aggregation by process_sources.    *)
(*                                                                         *)
(* A Python str is a sequence of one-character strings.  A parsed JSON     *)
(* value is a tagged record: [t |-> "str", v |-> chars],                   *)
(* [t |-> "list", v |-> <<values>>], [t |-> "num", v |-> n].               *)
(* A call that can raise returns [ok |-> TRUE, val |-> v] or               *)
(* [ok |-> FALSE, err |-> name of the exception].                          *)
(***************************************************************************)
EXTENDS Integers, Sequences, FiniteSets, TLC

\* ------------------------------------------------------------------------
\* Characters and the str methods the code uses
\* ------------------------------------------------------------------------
LowerCase ==
    <<"a","b","c","d","e","f","g","h","i","j","k","l","m",
      "n","o","p","q","r","s","t","u","v","w","x","y","z">>

UpperCase ==
    <<"A","B","C","D","E","F","G","H","I","J","K","L","M",
      "N","O","P","Q","R","S","T","U","V","W","X","Y","Z">>

Digits == {"0","1","2","3","4","5","6","7","8","9"}

Letters == {LowerCase[i] : i \in 1..26} \cup {UpperCase[i] : i \in 1..26}

Spaces == {" "}

\* the class \w of the re module
WordChars == Letters \cup Digits \cup {"_"}

Max(S) == CHOOSE x \in S : \A y \in S : y <= x

Min(S) == CHOOSE x \in S : \A y \in S : x <= y

\* str.lower()
str_lower(s) ==
    [i \in 1..Len(s) |->
        IF \E k \in 1..26 : UpperCase[k] = s[i]
        THEN LowerCase[CHOOSE k \in 1..26 : UpperCase[k] = s[i]]
        ELSE s[i]]

\* s[i:].startswith(w)
StartsAt(s, i, w) ==
    /\ i >= 1
    /\ i + Len(w) - 1 <= Len(s)
    /\ \A k \in 1..Len(w) : s[i + k - 1] = w[k]

\* the end (exclusive) of the maximal run of characters of cls starting at p
RunEnd(s, p, cls) ==
    CHOOSE e \in p..(Len(s) + 1) :
        /\ \A k \in p..(e - 1) : s[k] \in cls
        /\ e = Len(s) + 1 \/ s[e] \notin cls

RECURSIVE SplitFrom(_, _, _, _)
SplitFrom(s, i, cur, acc) ==
    IF i > Len(s)
    THEN (IF cur = <<>> THEN acc ELSE Append(acc, cur))
    ELSE IF s[i] \in Spaces
         THEN SplitFrom(s, i + 1, <<>>, IF cur = <<>> THEN acc ELSE Append(acc, cur))
         ELSE SplitFrom(s, i + 1, Append(cur, s[i]), acc)

\* str.split() without arguments: the maximal runs of non-whitespace
str_split(s) == SplitFrom(s, 1, <<>>, <<>>)

RECURSIVE JoinFrom(_, _)
JoinFrom(words, i) ==
    IF i > Len(words) THEN <<>>
    ELSE IF i = Len(words) THEN words[i]
    ELSE words[i] \o <<" ">> \o JoinFrom(words, i + 1)

\* ' '.join(words)
str_join(words) == JoinFrom(words, 1)

RECURSIVE ReplaceFrom(_, _, _)
ReplaceFrom(s, i, w) ==
    IF i > Len(s) THEN <<>>
    ELSE IF Len(w) > 0 /\ StartsAt(s, i, w)
         THEN ReplaceFrom(s, i + Len(w), w)
         ELSE <<s[i]>> \o ReplaceFrom(s, i + 1, w)

\* s.replace(w, ''): every non-overlapping occurrence of the SUBSTRING w,
\* left to right, is deleted (w is never empty here: it comes from split())
str_replace(s, w) == ReplaceFrom(s, 1, w)

\* ------------------------------------------------------------------------
\* utils.string_utils (imported at line 5; its source is not part of src/)
\* ------------------------------------------------------------------------

\* collapses every run of whitespace to one space and strips both ends
remove_extra_whitespaces(s) == str_join(str_split(s))

\* every character that is neither a letter, a digit nor whitespace
\* becomes a space
replace_special_chars_with_whitespace(s) ==
    [i \in 1..Len(s) |->
        IF s[i] \in Letters \cup Digits \cup Spaces THEN s[i] ELSE " "]

HttpPrefix == <<"h","t","t","p">>

WwwPrefix == <<"w","w","w",".">>

IsWebsite(w) == StartsAt(w, 1, HttpPrefix) \/ StartsAt(w, 1, WwwPrefix)

RECURSIVE WebsitesFrom(_, _)
WebsitesFrom(s, i) ==
    IF i > Len(s) THEN <<>>
    ELSE IF (i = 1 \/ s[i - 1] \in Spaces) /\ s[i] \notin Spaces
            /\ IsWebsite(SubSeq(s, i, RunEnd(s, i, {s[k] : k \in 1..Len(s)} \ Spaces) - 1))
         THEN WebsitesFrom(s, RunEnd(s, i, {s[k] : k \in 1..Len(s)} \ Spaces))
         ELSE <<s[i]>> \o WebsitesFrom(s, i + 1)

\* deletes the whitespace-delimited tokens that are web addresses
remove_websites(s) == WebsitesFrom(s, 1)

RECURSIVE BetweenNumbersFrom(_, _)
BetweenNumbersFrom(s, i) ==
    IF i > Len(s) THEN <<>>
    ELSE IF /\ s[i] \in Spaces
            /\ i > 1
            /\ s[i - 1] \in Digits
            /\ RunEnd(s, i, Spaces) <= Len(s)
            /\ s[RunEnd(s, i, Spaces)] \in Digits
         THEN BetweenNumbersFrom(s, RunEnd(s, i, Spaces))
         ELSE <<s[i]>> \o BetweenNumbersFrom(s, i + 1)

\* deletes the whitespace that separates two digits
remove_whitespaces_between_numbers(s) == BetweenNumbersFrom(s, 1)

IsAlphanumericWord(w) ==
    /\ \E k \in 1..Len(w) : w[k] \in Letters
    /\ \E k \in 1..Len(w) : w[k] \in Digits

\* the words of s that mix letters and digits, in their order in s
find_alphanumeric_words(s) ==
    SelectSeq(str_split(replace_special_chars_with_whitespace(s)), IsAlphanumericWord)

\* ------------------------------------------------------------------------
\* remove_non_relevant_words: three re.sub(pattern, '', string)
\* ------------------------------------------------------------------------

\* \b at position p: between s[p-1] and s[p]
AtBoundary(s, p) ==
    LET before == p > 1 /\ p - 1 <= Len(s) /\ s[p - 1] \in WordChars
        after == p >= 1 /\ p <= Len(s) /\ s[p] \in WordChars
    IN  before # after

\* (?:inch|in|cm|mm|ms|dc|kg|gb|g?hz|days?|months?|years?), in the order
\* the matcher tries them
UnitWords ==
    << <<"i","n","c","h">>,
       <<"i","n">>,
       <<"c","m">>,
       <<"m","m">>,
       <<"m","s">>,
       <<"d","c">>,
       <<"k","g">>,
       <<"g","b">>,
       <<"g","h","z">>,
       <<"h","z">>,
       <<"d","a","y","s">>,
       <<"d","a","y">>,
       <<"m","o","n","t","h","s">>,
       <<"m","o","n","t","h">>,
       <<"y","e","a","r","s">>,
       <<"y","e","a","r">> >>

\* the positions where \s*\b can end when it starts at q
TailEnds(s, q) == {e \in q..RunEnd(s, q, Spaces) : AtBoundary(s, e)}

\* \b\d+\s*(?:\.\d+)?(?:inch|...)\s*\b matched at i: the end (exclusive)
\* of the match, 0 when there is none
UnitMatchEnd(s, i) ==
    IF ~(i <= Len(s) /\ s[i] \in Digits /\ AtBoundary(s, i)) THEN 0
    ELSE
      LET d == RunEnd(s, i, Digits)
          k == RunEnd(s, d, Spaces)
          hasFrac == /\ k + 1 <= Len(s)
                     /\ s[k] = "."
                     /\ s[k + 1] \in Digits
          p == IF hasFrac THEN RunEnd(s, k + 1, Digits) ELSE k
          fits(a) == /\ StartsAt(s, p, UnitWords[a])
                     /\ TailEnds(s, p + Len(UnitWords[a])) # {}
          alts == {a \in 1..Len(UnitWords) : fits(a)}
      IN  IF alts = {} THEN 0
          ELSE Max(TailEnds(s, p + Len(UnitWords[Min(alts)])))

\* \b\d+\s*x\s*\d+\b matched at i
ResolutionMatchEnd(s, i) ==
    IF ~(i <= Len(s) /\ s[i] \in Digits /\ AtBoundary(s, i)) THEN 0
    ELSE
      LET d == RunEnd(s, i, Digits)
          k == RunEnd(s, d, Spaces)
          k2 == RunEnd(s, k + 1, Spaces)
          e == RunEnd(s, k2, Digits)
      IN  IF /\ k <= Len(s)
             /\ s[k] = "x"
             /\ k2 <= Len(s)
             /\ s[k2] \in Digits
             /\ AtBoundary(s, e)
          THEN e ELSE 0

\* led|lcd|monitor|vga|hdmi|led, the alternatives before (windows|win)...
FrequentWordsBefore ==
    << <<"l","e","d">>,
       <<"l","c","d">>,
       <<"m","o","n","i","t","o","r">>,
       <<"v","g","a">>,
       <<"h","d","m","i">>,
       <<"l","e","d">> >>

\* pixel|display|...|colou?r, the alternatives after it
FrequentWordsAfter ==
    << <<"p","i","x","e","l">>,
       <<"d","i","s","p","l","a","y">>,
       <<"t","o","u","c","h">>,
       <<"t","o","u","c","h","s","c","r","e","e","n">>,
       <<"t","o","u","c","h","m","o","n","i","t","o","r">>,
       <<"s","c","r","e","e","n">>,
       <<"w","i","d","e","s","c","r","e","e","n">>,
       <<"t","f","t">>,
       <<"t","v">>,
       <<"c","a","b","l","e">>,
       <<"p","o","r","t">>,
       <<"d","e","s","k","t","o","p">>,
       <<"i","o","s">>,
       <<"a","p","p","l","e">>,
       <<"e","b","a","y">>,
       <<"n","e","w">>,
       <<"s","h","o","p">>,
       <<"f","r","e","e">>,
       <<"i","t","e","m">>,
       <<"c","o","l","o","u","r">>,
       <<"c","o","l","o","r">> >>

\* the end of the first alternative of alts that matches at i, 0 if none
FirstAltEnd(s, i, alts) ==
    LET hit == {a \in 1..Len(alts) : StartsAt(s, i, alts[a])}
    IN  IF hit = {} THEN 0 ELSE i + Len(alts[Min(hit)])

RECURSIVE VersionsEnd(_, _)
\* (\d{1,2}|vista|xp)* from p, greedy
VersionsEnd(s, p) ==
    IF p <= Len(s) /\ s[p] \in Digits
    THEN (IF p + 1 <= Len(s) /\ s[p + 1] \in Digits
          THEN VersionsEnd(s, p + 2)
          ELSE VersionsEnd(s, p + 1))
    ELSE IF StartsAt(s, p, <<"v","i","s","t","a">>) THEN VersionsEnd(s, p + 5)
    ELSE IF StartsAt(s, p, <<"x","p">>) THEN VersionsEnd(s, p + 2)
    ELSE p

\* (windows|win)\s*(\d{1,2}|vista|xp)* matched at i
WindowsEnd(s, i) ==
    LET w == IF StartsAt(s, i, <<"w","i","n","d","o","w","s">>) THEN i + 7
             ELSE IF StartsAt(s, i, <<"w","i","n">>) THEN i + 3
             ELSE 0
    IN  IF w = 0 THEN 0 ELSE VersionsEnd(s, RunEnd(s, w, Spaces))

\* \b(?:led|...|colou?r)s? matched at i; nothing follows s?, so the first
\* alternative that matches is the one kept
FrequentMatchEnd(s, i) ==
    IF ~(i <= Len(s) /\ AtBoundary(s, i) /\ s[i] \in WordChars) THEN 0
    ELSE
      LET b == FirstAltEnd(s, i, FrequentWordsBefore)
          w == WindowsEnd(s, i)
          a == FirstAltEnd(s, i, FrequentWordsAfter)
          e == IF b > 0 THEN b ELSE IF w > 0 THEN w ELSE a
      IN  IF e = 0 THEN 0
          ELSE IF e <= Len(s) /\ s[e] = "s" THEN e + 1 ELSE e

MatchEnd(rule, s, i) ==
    CASE rule = "units" -> UnitMatchEnd(s, i)
      [] rule = "resolutions" -> ResolutionMatchEnd(s, i)
      [] rule = "frequent" -> FrequentMatchEnd(s, i)

RECURSIVE SubFrom(_, _, _)
SubFrom(rule, s, i) ==
    IF i > Len(s) THEN <<>>
    ELSE IF MatchEnd(rule, s, i) > i
         THEN SubFrom(rule, s, MatchEnd(rule, s, i))
         ELSE <<s[i]>> \o SubFrom(rule, s, i + 1)

\* re.sub(pattern, '', s): the leftmost non-overlapping matches are deleted
re_sub(rule, s) == SubFrom(rule, s, 1)

remove_non_relevant_words(s) ==
    re_sub("frequent", re_sub("resolutions", re_sub("units", s)))

\* text.lower() raises AttributeError when text is not a str
clean_text_data(text) ==
    IF text.t # "str" THEN [ok |-> FALSE, err |-> "AttributeError"]
    ELSE [ok |-> TRUE,
          val |-> remove_extra_whitespaces(
                    remove_whitespaces_between_numbers(
                      remove_non_relevant_words(
                        replace_special_chars_with_whitespace(
                          remove_websites(str_lower(text.v))))))]

\* ------------------------------------------------------------------------
\* Parsed JSON, dicts and exceptions
\* ------------------------------------------------------------------------
StrVal(s) == [t |-> "str", v |-> s]

ListVal(l) == [t |-> "list", v |-> l]

NumVal(n) == [t |-> "num", v |-> n]

DictVal(f) == [t |-> "dict", v |-> f]

\* a file that open() or json.load() cannot read
Invalid == [t |-> "invalid", v |-> <<>>]

Ok(v) == [ok |-> TRUE, val |-> v]

Err(e) == [ok |-> FALSE, err |-> e]

\* bool(v) of Python
Truthy(v) ==
    CASE v.t = "str" -> Len(v.v) > 0
      [] v.t = "list" -> Len(v.v) > 0
      [] v.t = "num" -> v.v # 0
      [] v.t = "dict" -> DOMAIN v.v # {}

EmptyDict == <<>>

\* d[k] = v
DictSet(d, k, v) == [x \in DOMAIN d \cup {k} |-> IF x = k THEN v ELSE d[x]]

\* d.update(e)
DictUpdate(d, e) ==
    [x \in DOMAIN d \cup DOMAIN e |-> IF x \in DOMAIN e THEN e[x] ELSE d[x]]

RECURSIVE CounterUpdate(_, _, _)
\* Counter.update(words)
CounterUpdate(counter, words, i) ==
    IF i > Len(words) THEN counter
    ELSE CounterUpdate(
           DictSet(counter, words[i],
                   IF words[i] \in DOMAIN counter THEN counter[words[i]] + 1 ELSE 1),
           words, i + 1)

\* ------------------------------------------------------------------------
\* get_relevant_text, get_page_title, try_find_model_name
\* ------------------------------------------------------------------------
RelevantLabels ==
    <<"model", "model name", "product model", "model number",
      "product name", "part", "product description">>

PageTitle == "<page title>"

RECURSIVE RelevantFrom(_, _)
\* the loop of get_relevant_text from the i-th label on; key records which
\* key of data the returned value was read from
RelevantFrom(data, i) ==
    IF i > Len(RelevantLabels)
    THEN (IF PageTitle \in DOMAIN data
          THEN [ok |-> TRUE, val |-> data[PageTitle], key |-> PageTitle]
          ELSE [ok |-> FALSE, err |-> "KeyError", key |-> PageTitle])
    ELSE IF RelevantLabels[i] \in DOMAIN data /\ Truthy(data[RelevantLabels[i]])
         THEN [ok |-> TRUE,
               val |-> IF data[RelevantLabels[i]].t = "list"
                       THEN data[RelevantLabels[i]].v[1]
                       ELSE data[RelevantLabels[i]],
               key |-> RelevantLabels[i]]
         ELSE RelevantFrom(data, i + 1)

RECURSIVE PresentFrom(_, _)
PresentFrom(data, i) ==
    IF i > Len(RelevantLabels) THEN RelevantFrom(data, i)
    ELSE IF RelevantLabels[i] \in DOMAIN data
         THEN [ok |-> TRUE,
               val |-> IF data[RelevantLabels[i]].t = "list" /\ Len(data[RelevantLabels[i]].v) > 0
                       THEN data[RelevantLabels[i]].v[1]
                       ELSE data[RelevantLabels[i]],
               key |-> RelevantLabels[i]]
         ELSE PresentFrom(data, i + 1)

\* get_relevant_text with "if label in data" for "if data.get(label)"
get_relevant_text_present(data) == PresentFrom(data, 1)

get_relevant_text(data) == RelevantFrom(data, 1)

get_page_title(data) ==
    IF PageTitle \in DOMAIN data THEN Ok(data[PageTitle]) ELSE Err("KeyError")

RECURSIVE BlankShort(_, _)
\* [word if len(word) > 3 else '' for word in words]
BlankShort(words, i) ==
    IF i > Len(words) THEN <<>>
    ELSE <<IF Len(words[i]) > 3 THEN words[i] ELSE <<>> >> \o BlankShort(words, i + 1)

try_find_model_name(string) ==
    remove_extra_whitespaces(str_join(BlankShort(find_alphanumeric_words(string), 1)))

\* ------------------------------------------------------------------------
\* remove_common_words
\* ------------------------------------------------------------------------

\* min_percentage is the fraction <<numerator, denominator>>; the default
\* 0.02 is <<2, 100>>
DefaultMinPercentage == <<2, 100>>

\* the comparison of line 56 with <= for <
BelowOrAtMinOccurrences(count, n_items, min_percentage) ==
    count * min_percentage[2] <= n_items * min_percentage[1]

\* count < min_occurrences, with min_occurrences = n_items * min_percentage
BelowMinOccurrences(count, n_items, min_percentage) ==
    count * min_percentage[2] < n_items * min_percentage[1]

\* the list words_to_remove, which the code only tests for membership
words_to_remove(item2pagetitle, word_counter, min_percentage) ==
    {word \in DOMAIN word_counter :
        ~BelowMinOccurrences(word_counter[word],
                             Cardinality(DOMAIN item2pagetitle), min_percentage)}

\* one removal: value.replace(word, '') and remove_extra_whitespaces
remove_word(value, word) == remove_extra_whitespaces(str_replace(value, word))

RECURSIVE PruneFrom(_, _, _, _)
\* the inner loop over value.split(), which is evaluated once, before the
\* first removal
PruneFrom(value, words, i, remove) ==
    IF i > Len(words) THEN value
    ELSE IF words[i] \notin remove THEN PruneFrom(value, words, i + 1, remove)
    ELSE PruneFrom(remove_word(value, words[i]), words, i + 1, remove)

\* the dict as remove_common_words leaves it, and the list it prints
remove_common_words(source, item2pagetitle, word_counter, min_percentage) ==
    LET remove == words_to_remove(item2pagetitle, word_counter, min_percentage)
    IN  [item2pagetitle |->
            [key \in DOMAIN item2pagetitle |->
                StrVal(PruneFrom(item2pagetitle[key].v,
                                 str_split(item2pagetitle[key].v), 1, remove))],
         printed |-> remove]

\* ------------------------------------------------------------------------
\* One file of process_directory and of process_directory_page_titles
\* ------------------------------------------------------------------------
NotJsonSuffix(tok) == tok # ".json"

\* source_dir + '//' + file.replace('.json', ''); a file name is the
\* sequence of its parts, ".json" being one part
item_name(source_dir, file) == <<source_dir, SelectSeq(file, NotJsonSuffix)>>

\* item_label without the test of line 130
item_label_model_only(cleaned_text) ==
    IF Len(str_split(cleaned_text)) > 1
    THEN try_find_model_name(cleaned_text)
    ELSE cleaned_text

\* lines 128-131: the model name replaces a text of several words when one
\* is found
item_label(cleaned_text) ==
    IF Len(str_split(cleaned_text)) > 1
    THEN LET model == try_find_model_name(cleaned_text)
         IN  IF model # <<>> THEN model ELSE cleaned_text
    ELSE cleaned_text

\* pd_try with "if cleaned_text:" before the entry is stored
pd_try_skip_empty_label(content) ==
    IF content.t = "invalid" THEN [kind |-> "error", val |-> "JSONDecodeError"]
    ELSE IF ~Truthy(content) THEN [kind |-> "empty", val |-> ""]
    ELSE IF content.t # "dict" THEN [kind |-> "error", val |-> "AttributeError"]
    ELSE
      LET text_to_process == get_relevant_text(content.v)
          cleaned_text == clean_text_data(text_to_process.val)
          label == item_label(cleaned_text.val)
      IN  IF ~text_to_process.ok THEN [kind |-> "error", val |-> text_to_process.err]
          ELSE IF ~cleaned_text.ok THEN [kind |-> "error", val |-> cleaned_text.err]
          ELSE IF label = <<>> THEN [kind |-> "empty", val |-> ""]
          ELSE [kind |-> "entry", val |-> StrVal(label)]

\* the body of the try of process_directory (lines 119-137) for a file of
\* the given content: the entry it stores, "empty", or the exception
pd_try(content) ==
    IF content.t = "invalid" THEN [kind |-> "error", val |-> "JSONDecodeError"]
    ELSE IF ~Truthy(content) THEN [kind |-> "empty", val |-> ""]
    ELSE IF content.t # "dict" THEN [kind |-> "error", val |-> "AttributeError"]
    ELSE
      LET text_to_process == get_relevant_text(content.v)
          cleaned_text == clean_text_data(text_to_process.val)
      IN  IF ~text_to_process.ok THEN [kind |-> "error", val |-> text_to_process.err]
          ELSE IF ~cleaned_text.ok THEN [kind |-> "error", val |-> cleaned_text.err]
          ELSE [kind |-> "entry", val |-> StrVal(item_label(cleaned_text.val))]

\* the body of the try of process_directory_page_titles (lines 153-160)
pt_try(content) ==
    IF content.t = "invalid" THEN [kind |-> "error", val |-> "JSONDecodeError"]
    ELSE IF ~Truthy(content) THEN [kind |-> "empty", val |-> ""]
    ELSE IF content.t # "dict" THEN [kind |-> "error", val |-> "TypeError"]
    ELSE
      LET page_title == get_page_title(content.v)
      IN  IF ~page_title.ok THEN [kind |-> "error", val |-> page_title.err]
          ELSE [kind |-> "entry", val |-> page_title.val]

\* the locals of a call of process_directory or process_directory_page_titles
\* that has just started; idx counts the files the loop has handled and out
\* is what the call has printed
new_task(fn, source_dir) ==
    [fn |-> fn, source |-> source_dir, pc |-> "walk", idx |-> 0,
     item2pagetitle |-> EmptyDict, word_counter |-> EmptyDict, out |-> <<>>]

\* what the loop body does to the locals for one file, given what the try
\* body came to
file_step(task, file, r) ==
    CASE r.kind = "entry" ->
           [task EXCEPT
              !.idx = @ + 1,
              !.word_counter =
                  IF task.fn = "process_directory"
                  THEN CounterUpdate(@, str_split(r.val.v), 1)
                  ELSE @,
              !.item2pagetitle = DictSet(@, item_name(task.source, file.name), r.val)]
      [] r.kind = "empty" ->
           [task EXCEPT
              !.idx = @ + 1,
              !.out = Append(@, [msg |-> "Empty JSON file", file |-> file.name,
                                 detail |-> ""])]
      [] r.kind = "error" ->
           [task EXCEPT
              !.idx = @ + 1,
              !.out = Append(@, [msg |-> "Error reading", file |-> file.name,
                                 detail |-> r.val])]

\* task_file without the try: the exception ends the call
task_file_uncaught(task, file) ==
    LET r == IF task.fn = "process_directory"
             THEN pd_try(file.content)
             ELSE pt_try(file.content)
    IN  IF r.kind = "error"
        THEN [task EXCEPT !.pc = "done"]
        ELSE file_step(task, file, r)

\* one iteration of the loop over the files of the source
task_file(task, file) ==
    file_step(task, file,
              IF task.fn = "process_directory"
              THEN pd_try(file.content)
              ELSE pt_try(file.content))

\* the loop is over: every file of the listing has been handled
walk_done(task, listing) == task.idx >= Len(listing)

\* lines 141-143 and line 164: what follows the loop
task_finish(task) ==
    IF task.fn = "process_directory"
    THEN LET r == remove_common_words(task.source, task.item2pagetitle,
                                      task.word_counter, DefaultMinPercentage)
         IN  [task EXCEPT
                !.pc = "done",
                !.item2pagetitle = r.item2pagetitle,
                !.out = Append(@, [msg |-> "Words to remove", file |-> <<>>,
                                   detail |-> r.printed])]
    ELSE [task EXCEPT !.pc = "done"]

RECURSIVE RunTask(_, _)
\* a whole call, run alone from where task stands
RunTask(task, listing) ==
    IF walk_done(task, listing) THEN task_finish(task)
    ELSE RunTask(task_file(task, listing[task.idx + 1]), listing)

process_directory(tree, source_dir) ==
    RunTask(new_task("process_directory", source_dir), tree[source_dir]).item2pagetitle

process_directory_page_titles(tree, source_dir) ==
    RunTask(new_task("process_directory_page_titles", source_dir),
            tree[source_dir]).item2pagetitle

\* ------------------------------------------------------------------------
\* Bounds and the inputs the model is run on
\* ------------------------------------------------------------------------

\* files per source when process_sources runs
MaxFiles == 2

\* files of the source when the two directory functions run on their own
MaxDirFiles == 3

\* keys other than the page title and the labels are never read; an item
\* has at most this many of the keys that are
MaxFields == 2

\* titles of a small dict handed to remove_common_words
MaxItems == 2

\* items of a large source, and occurrences of a word in it
MaxSourceItems == 55

MaxCount == 2

\* the source directories under root_dir, in the order os.walk gives them
SourceDirs == <<"s1", "s2">>

NumSources == Len(SourceDirs)

\* the file names of a source in the order os.walk lists them: "1" and
\* "1.json" give the same item name
NamePool == << <<"1", ".json">>, <<"1">>, <<"2", ".json">>, <<"3", ".json">> >>

DellTitle == <<"D","e","l","l"," ","U","2","4","1","2","M"," ","2","4","i","n"," ","L","E","D"," ","-"," ","e","B","a","y">>

\* a label and a page title
GoodItem ==
    DictVal((PageTitle :> StrVal(DellTitle)) @@ ("model" :> StrVal(<<"U","2","4","1","2","M">>)))

\* a page title only; its cleaned text has several words, one a model name
TitleOnlyItem == DictVal(PageTitle :> StrVal(DellTitle))

\* a list-valued label whose text has several words, none a model name
ListItem ==
    DictVal((PageTitle :> StrVal(<<"T","i","t","l","e">>))
            @@ ("product name" :> ListVal(<<StrVal(<<"a","b"," ","a","b","c">>), StrVal(<<"z","z">>)>>)))

\* a page title the cleaning empties
BlankItem == DictVal(PageTitle :> StrVal(<<"L","E","D"," ","M","o","n","i","t","o","r">>))

\* a one-word page title
ShortItem == DictVal(PageTitle :> StrVal(<<"c">>))

\* a label but no page title
NoTitleItem == DictVal("model" :> StrVal(<<"X","1">>))

\* a label that is a number
NumLabelItem == DictVal((PageTitle :> StrVal(<<"T","i","t","l","e">>)) @@ ("model" :> NumVal(5)))

EmptyJson == DictVal(<<>>)

NonDictJson == ListVal(<<StrVal(<<"X","1">>)>>)

DirContents ==
    {GoodItem, TitleOnlyItem, ListItem, BlankItem, ShortItem, NoTitleItem,
     NumLabelItem, EmptyJson, NonDictJson, Invalid}

PipelineContents == {GoodItem, NoTitleItem}

RECURSIVE SortedSeq(_)
SortedSeq(S) == IF S = {} THEN <<>> ELSE <<Min(S)>> \o SortedSeq(S \ {Min(S)})

\* the listings of a source: some of the names of NamePool, in its order,
\* each with a content
Listings(names, contents) ==
    {[j \in 1..Len(names) |-> [name |-> NamePool[names[j]], content |-> c[j]]] :
        c \in [1..Len(names) -> contents]}

DirListings ==
    UNION {Listings(SortedSeq(I), DirContents) :
             I \in {J \in SUBSET (1..Len(NamePool)) : Cardinality(J) <= MaxDirFiles}}

PipelineListings ==
    UNION {Listings(SortedSeq(1..n), PipelineContents) : n \in 0..MaxFiles}

\* ------------------------------------------------------------------------
\* State
\* ------------------------------------------------------------------------
VARIABLES
    fs,               \* root_dir: source_dir -> listing of its files
    futures,          \* the list futures, each with the locals of its call
    mpc,              \* where process_sources stands
    collected,        \* the futures whose result process_sources has merged
    item2processed,   \* the dict item2processed of process_sources
    item2pagetitle,   \* the dict item2pagetitle of process_sources
    written,          \* RESULTS_DIR/preprocessing: file name -> dumped dict
    args,             \* the arguments of a function called on its own
    ret,              \* what that call returned
    called            \* whether it has returned

vars ==
    <<fs, futures, mpc, collected, item2processed, item2pagetitle, written,
      args, ret, called>>

main_vars == <<mpc, collected, item2processed, item2pagetitle, written>>

call_vars == <<args, ret, called>>

NoCall == args = <<>> /\ ret = <<>> /\ called = FALSE

NoMain ==
    /\ mpc = "none"
    /\ collected = {}
    /\ item2processed = EmptyDict
    /\ item2pagetitle = EmptyDict
    /\ written = EmptyDict

\* ------------------------------------------------------------------------
\* process_sources and its worker tasks
\* ------------------------------------------------------------------------
Init ==
    /\ fs \in [{SourceDirs[i] : i \in 1..NumSources} -> PipelineListings]
    /\ futures = <<>>
    /\ mpc = "submit"
    /\ collected = {}
    /\ item2processed = EmptyDict
    /\ item2pagetitle = EmptyDict
    /\ written = EmptyDict
    /\ NoCall

\* lines 174-177: the next executor.submit; a submitted call may start at
\* once
Submit ==
    /\ mpc = "submit"
    /\ Len(futures) < 2 * NumSources
    /\ futures' =
         Append(futures,
                new_task(IF Len(futures) % 2 = 0
                         THEN "process_directory"
                         ELSE "process_directory_page_titles",
                         SourceDirs[(Len(futures) \div 2) + 1]))
    /\ mpc' = IF Len(futures) + 1 = 2 * NumSources THEN "collect" ELSE "submit"
    /\ UNCHANGED <<fs, collected, item2processed, item2pagetitle, written>>
    /\ UNCHANGED call_vars

\* a worker thread runs one iteration of the file loop of task t
ProcessFile(t) ==
    /\ t \in DOMAIN futures
    /\ futures[t].pc = "walk"
    /\ ~walk_done(futures[t], fs[futures[t].source])
    /\ futures' =
         [futures EXCEPT
            ![t] = task_file(@, fs[futures[t].source][futures[t].idx + 1])]
    /\ UNCHANGED fs
    /\ UNCHANGED main_vars
    /\ UNCHANGED call_vars

\* a worker thread leaves the file loop of task t and returns
Finish(t) ==
    /\ t \in DOMAIN futures
    /\ futures[t].pc = "walk"
    /\ walk_done(futures[t], fs[futures[t].source])
    /\ futures' = [futures EXCEPT ![t] = task_finish(@)]
    /\ UNCHANGED fs
    /\ UNCHANGED main_vars
    /\ UNCHANGED call_vars

\* the loop of line 179 over as_completed(futures)
next_future_as_completed(done) ==
    IF \E t \in DOMAIN futures \ done : futures[t].pc = "done"
    THEN Min({t \in DOMAIN futures \ done : futures[t].pc = "done"})
    ELSE Min(DOMAIN futures \ done)

\* line 179: for future in futures, in the order of the list
next_future(done) == Min(DOMAIN futures \ done)

\* a result taken without waiting for the call
future_ready_at_once(t) == TRUE

\* future.result() returns once the call has returned
future_ready(t) == futures[t].pc = "done"

\* lines 179-181: one iteration of the loop over the futures
Collect ==
    /\ mpc = "collect"
    /\ DOMAIN futures \ collected # {}
    /\ future_ready(next_future(collected))
    /\ item2processed' =
         DictUpdate(item2processed, futures[next_future(collected)].item2pagetitle)
    /\ item2pagetitle' =
         DictUpdate(item2pagetitle, futures[next_future(collected)].item2pagetitle)
    /\ collected' = collected \cup {next_future(collected)}
    /\ mpc' = IF collected' = DOMAIN futures THEN "write_processed" ELSE "collect"
    /\ UNCHANGED <<fs, futures, written>>
    /\ UNCHANGED call_vars

\* line 186: the dict that is dumped to preprocessed_dataset.json
processed_dump == item2pagetitle

\* line 194: the dict that is dumped to item2pagetitle.json
pagetitle_dump == item2pagetitle

\* lines 183-189; open() may raise, which is caught and printed
WriteProcessed ==
    /\ mpc = "write_processed"
    /\ \E opened \in BOOLEAN :
         written' = IF opened
                    THEN DictSet(written, "preprocessed_dataset.json", processed_dump)
                    ELSE written
    /\ mpc' = "write_titles"
    /\ UNCHANGED <<fs, futures, collected, item2processed, item2pagetitle>>
    /\ UNCHANGED call_vars

\* lines 191-197
WriteTitles ==
    /\ mpc = "write_titles"
    /\ \E opened \in BOOLEAN :
         written' = IF opened
                    THEN DictSet(written, "item2pagetitle.json", pagetitle_dump)
                    ELSE written
    /\ mpc' = "done"
    /\ UNCHANGED <<fs, futures, collected, item2processed, item2pagetitle>>
    /\ UNCHANGED call_vars

Next ==
    \/ Submit
    \/ \E t \in 1..(2 * NumSources) : ProcessFile(t)
    \/ \E t \in 1..(2 * NumSources) : Finish(t)
    \/ Collect
    \/ WriteProcessed
    \/ WriteTitles

Spec == Init /\ [][Next]_vars

\* ------------------------------------------------------------------------
\* process_directory and process_directory_page_titles on one source
\* ------------------------------------------------------------------------
InitDir ==
    /\ fs \in [{"s1"} -> DirListings]
    /\ futures = <<new_task("process_directory", "s1"),
                   new_task("process_directory_page_titles", "s1")>>
    /\ NoMain
    /\ NoCall

NextDir ==
    \/ \E t \in 1..2 : ProcessFile(t)
    \/ \E t \in 1..2 : Finish(t)

SpecDir == InitDir /\ [][NextDir]_vars

\* ------------------------------------------------------------------------
\* get_relevant_text called on its own
\* ------------------------------------------------------------------------
GrtKeys == {RelevantLabels[i] : i \in 1..Len(RelevantLabels)} \cup {PageTitle}

\* the values scraped items hold: strings and lists of strings
GrtValues ==
    {StrVal(<<>>), StrVal(<<"X","1">>), ListVal(<<>>),
     ListVal(<<StrVal(<<"a","b"," ","a","b","c">>), StrVal(<<"z","z">>)>>), ListVal(<<StrVal(<<>>)>>)}

GrtInputs ==
    UNION {[K -> GrtValues] :
             K \in {J \in SUBSET GrtKeys : Cardinality(J) <= MaxFields}}

InitGRT ==
    /\ fs = EmptyDict
    /\ futures = <<>>
    /\ NoMain
    /\ args \in {[data |-> d] : d \in GrtInputs}
    /\ ret = <<>>
    /\ called = FALSE

CallGetRelevantText ==
    /\ ~called
    /\ ret' = get_relevant_text(args.data)
    /\ called' = TRUE
    /\ UNCHANGED <<fs, futures, args>>
    /\ UNCHANGED main_vars

NextGRT == CallGetRelevantText

SpecGRT == InitGRT /\ [][NextGRT]_vars

\* ------------------------------------------------------------------------
\* remove_common_words called on its own
\* ------------------------------------------------------------------------
RcwTitles == {<<>>, <<"a","b">>, <<"c">>, <<"a","b"," ","a","b","c">>, <<"a","b","c"," ","a","b">>}

\* a few titles of any kind
SmallDicts == UNION {[1..n -> {StrVal(x) : x \in RcwTitles}] : n \in 0..MaxItems}

\* many items: c1 of them titled "ab", c2 titled "c", the others empty
LargeDicts ==
    UNION {{[k \in 1..n |->
               StrVal(IF k <= c[1] THEN <<"a","b">>
                      ELSE IF k <= c[1] + c[2] THEN <<"c">>
                      ELSE <<>>)] :
              c \in {d \in (0..MaxCount) \X (0..MaxCount) : d[1] + d[2] <= n}} :
             n \in 0..MaxSourceItems}

RECURSIVE CounterOf(_, _)
\* the word_counter process_directory has built when it calls
\* remove_common_words: the words of the titles of items 1..n
CounterOf(titles, n) ==
    IF n = 0 THEN EmptyDict
    ELSE CounterUpdate(CounterOf(titles, n - 1), str_split(titles[n].v), 1)

MinPercentages == {DefaultMinPercentage, <<1, 2>>, <<1, 1>>}

InitRCW ==
    /\ fs = EmptyDict
    /\ futures = <<>>
    /\ NoMain
    /\ args \in {[item2pagetitle |-> d,
                  word_counter |-> CounterOf(d, Len(d)),
                  min_percentage |-> p] :
                    d \in SmallDicts \cup LargeDicts, p \in MinPercentages}
    /\ ret = <<>>
    /\ called = FALSE

CallRemoveCommonWords ==
    /\ ~called
    /\ ret' = remove_common_words("s1", args.item2pagetitle, args.word_counter,
                                  args.min_percentage)
    /\ called' = TRUE
    /\ UNCHANGED <<fs, futures, args>>
    /\ UNCHANGED main_vars

NextRCW == CallRemoveCommonWords

SpecRCW == InitRCW /\ [][NextRCW]_vars

\* ------------------------------------------------------------------------
\* Properties
\* ------------------------------------------------------------------------
Sources == {SourceDirs[i] : i \in 1..NumSources}

PdTasks == {t \in DOMAIN futures : futures[t].fn = "process_directory"}

PtTasks == {t \in DOMAIN futures : futures[t].fn = "process_directory_page_titles"}

ListingOf(t) == fs[futures[t].source]

\* whether the call has printed its words to remove, i.e. has pruned
HasPruned(t) ==
    \E i \in 1..Len(futures[t].out) : futures[t].out[i].msg = "Words to remove"

RECURSIVE IsSubsequence(_, _)
IsSubsequence(a, b) ==
    IF a = <<>> THEN TRUE
    ELSE IF b = <<>> THEN FALSE
    ELSE IF Head(a) = Head(b) THEN IsSubsequence(Tail(a), Tail(b))
    ELSE IsSubsequence(a, Tail(b))

Occurrences(w, words) == Cardinality({i \in 1..Len(words) : words[i] = w})

\* C1: once process_sources has written them, preprocessed_dataset.json
\* holds for every item key the label process_directory returned for it, and
\* item2pagetitle.json holds for every item key the page title
\* process_directory_page_titles returned for it.
C1_TwoConsolidations ==
    /\ "preprocessed_dataset.json" \in DOMAIN written =>
         \A t \in PdTasks : \A key \in DOMAIN futures[t].item2pagetitle :
            /\ key \in DOMAIN written["preprocessed_dataset.json"]
            /\ written["preprocessed_dataset.json"][key] = futures[t].item2pagetitle[key]
    /\ "item2pagetitle.json" \in DOMAIN written =>
         \A t \in PtTasks : \A key \in DOMAIN futures[t].item2pagetitle :
            /\ key \in DOMAIN written["item2pagetitle.json"]
            /\ written["item2pagetitle.json"][key] = futures[t].item2pagetitle[key]

\* the priority order as C2 states it
C2_Priority ==
    <<"model", "model name", "product model", "model number",
      "product name", "part", "product description">>

C2_NonEmpty(data, label) == label \in DOMAIN data /\ data[label].v # <<>>

C2_First(data) == Min({i \in 1..7 : C2_NonEmpty(data, C2_Priority[i])})

\* C2: get_relevant_text returns the value (the first element of a list) of
\* the first label of the priority order whose value is present and
\* non-empty, and it reads the page title exactly when no label has a
\* non-empty value.
C2_FirstNonEmptyLabel ==
    called /\ "data" \in DOMAIN args =>
      LET data == args.data
          some == \E i \in 1..7 : C2_NonEmpty(data, C2_Priority[i])
      IN  /\ some =>
               /\ ret.ok
               /\ ret.key = C2_Priority[C2_First(data)]
               /\ ret.val = IF data[C2_Priority[C2_First(data)]].t = "list"
                            THEN data[C2_Priority[C2_First(data)]].v[1]
                            ELSE data[C2_Priority[C2_First(data)]]
          /\ (ret.key = "<page title>") <=> ~some
          /\ ~some /\ "<page title>" \in DOMAIN data =>
               ret.ok /\ ret.val = data["<page title>"]
          /\ ~some /\ "<page title>" \notin DOMAIN data => ~ret.ok

\* a later label is returned because the labels before it are empty or absent
C2_Witness ==
    /\ called
    /\ "data" \in DOMAIN args
    /\ ret.ok
    /\ ret.key = "part"
    /\ "model" \in DOMAIN args.data
    /\ args.data["part"].t = "list"

\* what C3 calls a file that is skipped by the call fn: it cannot be read or
\* parsed, its JSON is empty, or the field extraction or the cleaning raises
C3_Skipped(fn, content) ==
    \/ content.t = "invalid"
    \/ ~Truthy(content)
    \/ content.t # "dict"
    \/ /\ fn = "process_directory"
       /\ \/ ~get_relevant_text(content.v).ok
          \/ get_relevant_text(content.v).val.t # "str"
    \/ /\ fn = "process_directory_page_titles"
       /\ "<page title>" \notin DOMAIN content.v

C3_PdKept(file) == ~C3_Skipped("process_directory", file.content)

C3_PtKept(file) == ~C3_Skipped("process_directory_page_titles", file.content)

C3_Kept(t) ==
    IF futures[t].fn = "process_directory"
    THEN SelectSeq(ListingOf(t), C3_PdKept)
    ELSE SelectSeq(ListingOf(t), C3_PtKept)

C3_Messages(t) ==
    LET named(m) == m.msg # "Words to remove"
    IN  SelectSeq(futures[t].out, named)

C3_SkippedNames(t) ==
    LET h == SubSeq(ListingOf(t), 1, futures[t].idx)
        skipped(f) == C3_Skipped(futures[t].fn, f.content)
        g == SelectSeq(h, skipped)
    IN  [i \in 1..Len(g) |-> g[i].name]

\* C3: a file that raises or is empty is logged and skipped and the run goes
\* on: at any time the mapping has an entry for exactly the handled files
\* that are not skipped, one message is printed for each skipped file, the
\* call returns only after the last file, and what it returns is what it
\* returns for the source without the skipped files.
C3_SkipAndGoOn ==
    \A t \in DOMAIN futures :
      LET task == futures[t]
          h == SubSeq(ListingOf(t), 1, task.idx)
      IN  /\ task.idx <= Len(ListingOf(t))
          /\ DOMAIN task.item2pagetitle =
               {item_name(task.source, h[j].name) :
                  j \in {k \in 1..Len(h) : ~C3_Skipped(task.fn, h[k].content)}}
          /\ [i \in 1..Len(C3_Messages(t)) |-> C3_Messages(t)[i].file]
               = C3_SkippedNames(t)
          /\ task.pc = "done" =>
               /\ task.idx = Len(ListingOf(t))
               /\ task.item2pagetitle =
                    RunTask(new_task(task.fn, task.source), C3_Kept(t)).item2pagetitle

\* a call has returned from a source whose skipped file stands between two
\* files that got an entry
C3_Witness ==
    \E t \in DOMAIN futures :
      /\ futures[t].pc = "done"
      /\ Len(ListingOf(t)) = 3
      /\ ~C3_Skipped(futures[t].fn, ListingOf(t)[1].content)
      /\ C3_Skipped(futures[t].fn, ListingOf(t)[2].content)
      /\ ListingOf(t)[2].content.t = "dict"
      /\ ~C3_Skipped(futures[t].fn, ListingOf(t)[3].content)
      /\ Cardinality(DOMAIN futures[t].item2pagetitle) = 2

\* the calls in the order process_sources submits them, each run alone
RECURSIVE C4_MergedUpTo(_)
C4_MergedUpTo(i) ==
    IF i = 0 THEN EmptyDict
    ELSE DictUpdate(
           DictUpdate(C4_MergedUpTo(i - 1), process_directory(fs, SourceDirs[i])),
           process_directory_page_titles(fs, SourceDirs[i]))

RECURSIVE C4_RunFirst(_, _, _)
\* the locals of a call that has handled the first n files, run alone
C4_RunFirst(task, listing, n) ==
    IF task.idx >= n THEN task
    ELSE C4_RunFirst(task_file(task, listing[task.idx + 1]), listing, n)

C4_Alone(t) ==
    LET fresh == new_task(futures[t].fn, futures[t].source)
    IN  IF futures[t].pc = "done"
        THEN RunTask(fresh, ListingOf(t))
        ELSE C4_RunFirst(fresh, ListingOf(t), futures[t].idx)

\* C4: the tasks are independent and the merge does not depend on the
\* interleaving: the locals of every task are at any time those of the same
\* call run alone up to the same file, and once all results are merged both
\* merged mappings are those of the calls run one after the other in the
\* order they were submitted.
C4_Independent ==
    /\ \A t \in DOMAIN futures : futures[t] = C4_Alone(t)
    /\ mpc \in {"write_processed", "write_titles", "done"} =>
         /\ item2processed = C4_MergedUpTo(NumSources)
         /\ item2pagetitle = C4_MergedUpTo(NumSources)

\* the results of the first source are merged, its page title having
\* replaced a different label, while of the second source the call submitted
\* last has returned before the one submitted before it
C4_Witness ==
    /\ mpc = "collect"
    /\ collected = {1, 2}
    /\ futures[3].pc = "walk"
    /\ futures[4].pc = "done"
    /\ \E key \in DOMAIN futures[1].item2pagetitle
                  \cap DOMAIN futures[2].item2pagetitle :
         /\ futures[1].item2pagetitle[key] # futures[2].item2pagetitle[key]
         /\ item2processed[key] = futures[2].item2pagetitle[key]

\* C5: the stages are ordered: a call prunes only after its loop has handled
\* every file of the source, a result is merged only after its call has
\* returned (pruning done), and no file is written before every submitted
\* result has been merged (and every source submitted).
C5_StageOrder ==
    /\ \A t \in DOMAIN futures :
         /\ HasPruned(t) => futures[t].idx = Len(ListingOf(t))
         /\ futures[t].pc = "done" /\ futures[t].fn = "process_directory"
              => HasPruned(t)
         /\ t \in collected => futures[t].pc = "done"
    /\ mpc \in {"write_titles", "done"} \/ written # EmptyDict =>
         /\ Len(futures) = 2 * NumSources
         /\ collected = DOMAIN futures
         /\ \A t \in DOMAIN futures : futures[t].pc = "done"

\* both files are written and a merged label was pruned
C5_Witness ==
    /\ mpc = "done"
    /\ DOMAIN written = {"preprocessed_dataset.json", "item2pagetitle.json"}
    /\ \E t \in PdTasks :
         /\ Len(ListingOf(t)) = 2
         /\ HasPruned(t)
         /\ futures[t].item2pagetitle # EmptyDict

\* the words C6, C7 and C8 call common
Common(word) ==
    /\ word \in DOMAIN args.word_counter
    /\ args.word_counter[word] * args.min_percentage[2]
         >= Len(args.item2pagetitle) * args.min_percentage[1]

NotCommon(word) == ~Common(word)

IsRcwCall == called /\ "word_counter" \in DOMAIN args

\* C6: after remove_common_words no title contains a common word as a
\* whitespace-separated word.
C6_NoCommonWordLeft ==
    IsRcwCall =>
      \A key \in DOMAIN ret.item2pagetitle :
        \A i \in 1..Len(str_split(ret.item2pagetitle[key].v)) :
          ~Common(str_split(ret.item2pagetitle[key].v)[i])

\* C7: the words to remove are exactly the counted words whose count is at
\* least min_percentage of the number of items, and with the default 2% and
\* fewer than 50 items every counted word is one.
C7_CommonThreshold ==
    IsRcwCall =>
      /\ ret.printed = {w \in DOMAIN args.word_counter : Common(w)}
      /\ args.min_percentage = <<2, 100>> /\ Len(args.item2pagetitle) < 50 =>
           ret.printed = DOMAIN args.word_counter

\* a source of more than 50 items in which one word is common and one is not
C7_Witness ==
    /\ IsRcwCall
    /\ args.min_percentage = <<2, 100>>
    /\ Len(args.item2pagetitle) > 50
    /\ ret.printed # {}
    /\ ret.printed # DOMAIN args.word_counter

\* C8: only whole common words are removed: the words of a title that are
\* not common are words of the resulting title in the same order, and a
\* title without a common word is unchanged.
C8_OnlyCommonWordsRemoved ==
    IsRcwCall =>
      \A key \in DOMAIN args.item2pagetitle :
        LET before == str_split(args.item2pagetitle[key].v)
            after == str_split(ret.item2pagetitle[key].v)
        IN  /\ IsSubsequence(SelectSeq(before, NotCommon), after)
            /\ (\A i \in 1..Len(before) : NotCommon(before[i])) =>
                 ret.item2pagetitle[key] = args.item2pagetitle[key]

BothReturned ==
    /\ Len(futures) = 2
    /\ futures[1].pc = "done"
    /\ futures[2].pc = "done"
    /\ futures[1].source = futures[2].source

C9_WellFormed(content) ==
    \/ content.t # "dict"
    \/ ~Truthy(content)
    \/ /\ "<page title>" \in DOMAIN content.v
       /\ content.v["<page title>"].t = "str"
       /\ \A i \in 1..Len(RelevantLabels) :
            RelevantLabels[i] \in DOMAIN content.v =>
              LET x == content.v[RelevantLabels[i]]
              IN  \/ x.t = "str"
                  \/ x.t = "list" /\ (x.v = <<>> \/ x.v[1].t = "str")

C10_LongerThan3(word) == Len(word) > 3

\* the label as C10 states it
C10_Label(cleaned_text) ==
    LET model == str_join(SelectSeq(find_alphanumeric_words(cleaned_text),
                                    C10_LongerThan3))
    IN  IF Len(str_split(cleaned_text)) > 1 /\ model # <<>>
        THEN model
        ELSE cleaned_text

\* C10: when process_directory stores an item, the label is the space-joined
\* alphanumeric words longer than 3 characters of the cleaned text if that
\* text has several words and some such word exists, else the cleaned text;
\* the counter grows by exactly the words of that label; and the item gets
\* its entry even when the label is empty.
C10_LabelAndCount ==
    [][\A t \in DOMAIN futures :
         /\ t \in DOMAIN futures'
         /\ futures[t].fn = "process_directory"
         /\ futures'[t].idx = futures[t].idx + 1
         /\ ~C3_Skipped("process_directory", ListingOf(t)[futures[t].idx + 1].content)
         => LET file == ListingOf(t)[futures[t].idx + 1]
                cleaned == clean_text_data(get_relevant_text(file.content.v).val).val
                label == C10_Label(cleaned)
                key == item_name(futures[t].source, file.name)
                old == futures[t].word_counter
                new == futures'[t].word_counter
            IN  /\ key \in DOMAIN futures'[t].item2pagetitle
                /\ futures'[t].item2pagetitle[key] = StrVal(label)
                /\ DOMAIN new =
                     DOMAIN old \cup {str_split(label)[i] : i \in 1..Len(str_split(label))}
                /\ \A w \in DOMAIN new :
                     new[w] = (IF w \in DOMAIN old THEN old[w] ELSE 0)
                                + Occurrences(w, str_split(label))
      ]_vars

\* process_directory has stored a model name found in a text of several
\* words, a text of several words kept whole, and an empty label
C10_Witness ==
    /\ Len(futures) = 2
    /\ mpc = "none"
    /\ futures[1].pc = "walk"
    /\ futures[1].idx = 3
    /\ ListingOf(1)[1].content = TitleOnlyItem
    /\ ListingOf(1)[2].content = ListItem
    /\ ListingOf(1)[3].content = BlankItem
    /\ \E key \in DOMAIN futures[1].item2pagetitle :
         futures[1].item2pagetitle[key] = StrVal(<<"u","2","4","1","2","m">>)
    /\ \E key \in DOMAIN futures[1].item2pagetitle :
         futures[1].item2pagetitle[key] = StrVal(<<"a","b"," ","a","b","c">>)
    /\ \E key \in DOMAIN futures[1].item2pagetitle :
         futures[1].item2pagetitle[key] = StrVal(<<>>)

====
